---- MODULE Spec2Model ----
(***************************************************************************)
(* Model of the /analyze handler of the Stock Hunter API (main.py):        *)
(* fractal-low scan over the weekly lows, greedy 5% clustering of the      *)
(* candidates, and the construction of the strategic plan.                 *)
(*                                                                         *)
(* Prices are integers counted in thousandths of the currency unit, so 21  *)
(* is 0.021.  A mean is an exact fraction                                  *)
(* [num, den].  round(x, 2) and round(x) are set-valued: on an exact       *)
(* decimal tie the float that Python rounds lies just above or just below  *)
(* the tie, so both neighbours are possible outcomes.                      *)
(***************************************************************************)
EXTENDS Integers, Sequences, FiniteSets

VARIABLES df, pc, current_price, one_year_high, one_year_low, i, levels,
          found, base, group, consolidated, top_3, status_msg,
          strategic_plan, response

vars == <<df, pc, current_price, one_year_high, one_year_low, i, levels,
          found, base, group, consolidated, top_3, status_msg,
          strategic_plan, response>>

(* ---------------------------- bounds ----------------------------------- *)

\* longest series whose lows are enumerated freely
MaxLen == 8

\* most fractal candidates planted in a constructed series
MaxCands == 5

\* the same two bounds for the runs checked under fairness
LiveMaxLen == 8

LiveMaxCands == 2

(* ---------------------------- inputs ----------------------------------- *)

\* lows used for the planted candidates: 20/21 sit exactly on the 5% bound,
\* 20/22 just beyond it, 5 and 12 are far apart
Prices == {5, 12, 20, 21, 22}

\* lows used for the freely enumerated series
SeriesPrices == {20, 21, 22}

\* low of the rows that surround a planted candidate: above every candidate
Ceiling == 2 * (CHOOSE p \in Prices : \A q \in Prices : q <= p)

\* low of the last row of a constructed series: the lowest price
Floor == CHOOSE p \in Prices : \A q \in Prices : p <= q

\* closing prices of the last row
CurPrices == {5, 21, 60}

Max2(a, b) == IF a >= b THEN a ELSE b

SeqsUpTo(S, lo, hi) == UNION {[1..n -> S] : n \in lo..hi}

\* Ceiling, Ceiling, c1, Ceiling, Ceiling, c2, ..., ck, Ceiling, Ceiling, Floor
Spike(c) ==
    [j \in 1..(3 * Len(c) + 3) |->
        IF j = 3 * Len(c) + 3 THEN Floor
        ELSE IF j % 3 = 0 THEN c[j \div 3] ELSE Ceiling]

LowSeriesUpTo(maxLen, maxCands) ==
    SeqsUpTo(SeriesPrices, 0, maxLen)
        \cup {Spike(c) : c \in SeqsUpTo(Prices, 1, maxCands)}

\* a weekly OHLC frame with the given lows whose last close is cur
Frame(lows, cur) ==
    [j \in 1..Len(lows) |->
        LET cl == IF j = Len(lows) THEN cur ELSE lows[j]
        IN  [Low |-> lows[j], Close |-> cl, High |-> Max2(lows[j], cl)]]

\* every row has Low <= Close <= High
WellFormed(d) == \A j \in 1..Len(d) : d[j].Low <= d[j].Close /\ d[j].Close <= d[j].High

\* the frames the data provider can return, the empty one included
Frames(maxLen, maxCands) ==
    {d \in {Frame(lows, cur) :
                lows \in {l \in LowSeriesUpTo(maxLen, maxCands) : Len(l) > 0},
                cur \in CurPrices} : WellFormed(d)}
        \cup {<<>>}

(* ---------------------------- helpers ---------------------------------- *)

\* df['Low'].iloc[k], k zero-based
Low(d, k) == d[k + 1].Low

RECURSIVE SumSeq(_)
SumSeq(s) == IF s = <<>> THEN 0 ELSE s[1] + SumSeq(Tail(s))

RECURSIVE MaxHigh(_)
MaxHigh(d) == IF Len(d) = 1 THEN d[1].High ELSE Max2(d[1].High, MaxHigh(Tail(d)))

RECURSIVE MinLow(_)
MinLow(d) ==
    IF Len(d) = 1 THEN d[1].Low
    ELSE LET m == MinLow(Tail(d)) IN IF d[1].Low <= m THEN d[1].Low ELSE m

\* the 52-week window
YearWindow == 52

\* df.tail(52)
TailRows(d, n) == IF Len(d) <= n THEN d ELSE SubSeq(d, Len(d) - n + 1, Len(d))

\* exact fractions
Frac(n, d) == [num |-> n, den |-> d]
FracLess(a, b) == a.num * b.den < b.num * a.den

\* the integers a float near num/den (num >= 0, den > 0) can round to
Round(num, den) ==
    LET q == num \div den
        r == num % den
    IN  IF 2 * r < den THEN {q}
        ELSE IF 2 * r > den THEN {q + 1}
        ELSE {q, q + 1}

\* round(x, 2) of a price x = num/den thousandths, in hundredths of the
\* currency unit
Round2(num, den) == Round(num, den * 10)

(* ------------------------ the handler's pieces -------------------------- *)

\* line 58: df.empty
IsEmpty(d) == Len(d) = 0

ScanGuardFiveRows(n) == n >= 5

\* line 71: the scan runs only when there are more than five rows
ScanGuard(n) == n > 5

\* line 72: range(2, len(df)-2)
InScanRange(k, n) == k < n - 2

IsFractalLowLoose(d, k) ==
    /\ Low(d, k) <= Low(d, k - 1)
    /\ Low(d, k) <= Low(d, k - 2)
    /\ Low(d, k) <= Low(d, k + 1)
    /\ Low(d, k) <= Low(d, k + 2)

\* lines 75-78: strictly below the two rows before and the two rows after
IsFractalLow(d, k) ==
    /\ Low(d, k) < Low(d, k - 1)
    /\ Low(d, k) < Low(d, k - 2)
    /\ Low(d, k) < Low(d, k + 1)
    /\ Low(d, k) < Low(d, k + 2)

\* line 84: levels.sort(), a stable ascending insertion
RECURSIVE InsertAsc(_, _)
InsertAsc(s, x) ==
    IF s = <<>> THEN <<x>>
    ELSE IF x < s[1] THEN <<x>> \o s
    ELSE <<s[1]>> \o InsertAsc(Tail(s), x)

RECURSIVE SortAsc(_)
SortAsc(s) ==
    IF s = <<>> THEN <<>>
    ELSE InsertAsc(SortAsc(SubSeq(s, 1, Len(s) - 1)), s[Len(s)])

LoopCondOffByOne(lv) == Len(lv) > 1

\* line 85: while levels
LoopCond(lv) == lv # <<>>

AbsorbsTenPercent(x, b) == x * 100 <= b * 110

\* line 90: x <= base * 1.05
Absorbs(x, b) == x * 100 <= b * 105

\* lines 89-93: the members absorbed from the remaining candidates
Absorbed(rest, b) == LET T(x) == Absorbs(x, b) IN SelectSeq(rest, T)

KeepAll(rest, b) == rest

\* lines 89-94: the candidates left for later clusters
Keep(rest, b) == LET T(x) == ~Absorbs(x, b) IN SelectSeq(rest, T)

\* line 96: (sum(group)/len(group), len(group))
LevelOf(g) == [price |-> Frac(SumSeq(g), Len(g)), count |-> Len(g)]

IsWaitingOrEqual(l, cur) == ~FracLess(Frac(cur, 1), l.price)

\* line 99: l[0] < current_price
IsWaiting(l, cur) == FracLess(l.price, Frac(cur, 1))

Waiting(cons, cur) == LET T(l) == IsWaiting(l, cur) IN SelectSeq(cons, T)

RECURSIVE InsertDesc(_, _)
InsertDesc(s, x) ==
    IF s = <<>> THEN <<x>>
    ELSE IF FracLess(s[1].price, x.price) THEN <<x>> \o s
    ELSE <<s[1]>> \o InsertDesc(Tail(s), x)

SortByPriceAsc(s) == s

\* line 100: waiting.sort(key=lambda x: x[0], reverse=True), stable
RECURSIVE SortByPriceDesc(_)
SortByPriceDesc(s) ==
    IF s = <<>> THEN <<>>
    ELSE InsertDesc(SortByPriceDesc(SubSeq(s, 1, Len(s) - 1)), s[Len(s)])

TopFour(w) == SubSeq(w, 1, IF Len(w) < 4 THEN Len(w) ELSE 4)

\* line 101: waiting[:3]
TopN(w) == SubSeq(w, 1, IF Len(w) < 3 THEN Len(w) ELSE 3)

RECURSIVE SumCounts(_)
SumCounts(s) == IF s = <<>> THEN 0 ELSE s[1].count + SumCounts(Tail(s))

TotalOfAllLevels(t, cons) == SumCounts(cons)

\* line 109: total_strength = sum(l[1] for l in top_3)
TotalStrength(t, cons) == SumCounts(t)

StatusFound == "Found Strategic Levels"

\* line 106: the message saying the price is the 5-year low or no support was found
StatusNone == "current price is the 5-year low or no support level found"

\* lines 112-124: the BuyLevel values rank k (zero-based) can get
BuyLevels(k, t, total, high, cur) ==
    LET price == t[k + 1].price
        count == t[k + 1].count
    IN  {[order |-> k + 1, price |-> p, weight_percent |-> w,
          discount_from_high_pct |-> d, gap_from_current_pct |-> g] :
            p \in Round2(price.num, price.den),
            w \in Round(count * 100, total),
            d \in Round((high * price.den - price.num) * 10000, high * price.den),
            g \in Round((cur * price.den - price.num) * 10000, cur * price.den)}

NoResponse ==
    [current_price |-> 0, year_high |-> 0, year_low |-> 0, status |-> "",
     strategic_plan |-> <<>>]

(* ------------------------------ actions --------------------------------- *)

InitWith(frames) ==
    /\ df \in frames
    /\ pc = "fetch"
    /\ current_price = 0
    /\ one_year_high = 0
    /\ one_year_low = 0
    /\ i = 0
    /\ levels = <<>>
    /\ found = <<>>
    /\ base = 0
    /\ group = <<>>
    /\ consolidated = <<>>
    /\ top_3 = <<>>
    /\ status_msg = ""
    /\ strategic_plan = <<>>
    /\ response = NoResponse

Init == InitWith(Frames(MaxLen, MaxCands))

LiveInit == InitWith(Frames(LiveMaxLen, LiveMaxCands))

\* lines 58-59: no rows, HTTP 404
NotFound ==
    /\ pc = "fetch"
    /\ IsEmpty(df)
    /\ pc' = "error"
    /\ UNCHANGED <<df, current_price, one_year_high, one_year_low, i, levels,
                   found, base, group, consolidated, top_3, status_msg,
                   strategic_plan, response>>

\* lines 61-69
ReadPrices ==
    /\ pc = "fetch"
    /\ ~IsEmpty(df)
    /\ current_price' = df[Len(df)].Close
    /\ one_year_high' = MaxHigh(TailRows(df, YearWindow))
    /\ one_year_low' = MinLow(TailRows(df, YearWindow))
    /\ levels' = <<>>
    /\ i' = 2
    /\ pc' = "scan"
    /\ UNCHANGED <<df, found, base, group, consolidated, top_3, status_msg,
                   strategic_plan, response>>

\* lines 72-79: one iteration of the scan; found records the index appended
ScanStep ==
    /\ pc = "scan"
    /\ ScanGuard(Len(df))
    /\ InScanRange(i, Len(df))
    /\ IF IsFractalLow(df, i)
          THEN /\ levels' = Append(levels, Low(df, i))
               /\ found' = Append(found, i)
          ELSE UNCHANGED <<levels, found>>
    /\ i' = i + 1
    /\ UNCHANGED <<df, pc, current_price, one_year_high, one_year_low, base,
                   group, consolidated, top_3, status_msg, strategic_plan,
                   response>>

\* lines 71-72 and 82: the scan is skipped or has run out of indices
ScanDone ==
    /\ pc = "scan"
    /\ ~(ScanGuard(Len(df)) /\ InScanRange(i, Len(df)))
    /\ consolidated' = <<>>
    /\ pc' = "sort"
    /\ UNCHANGED <<df, current_price, one_year_high, one_year_low, i, levels,
                   found, base, group, top_3, status_msg, strategic_plan,
                   response>>

\* lines 83-84
SortLevels ==
    /\ pc = "sort"
    /\ levels' = IF levels # <<>> THEN SortAsc(levels) ELSE levels
    /\ pc' = "cluster"
    /\ UNCHANGED <<df, current_price, one_year_high, one_year_low, i, found,
                   base, group, consolidated, top_3, status_msg,
                   strategic_plan, response>>

\* lines 85-96: one iteration of the worklist loop
ClusterStep ==
    /\ pc = "cluster"
    /\ LoopCond(levels)
    /\ LET b == Head(levels)
           g == <<b>> \o Absorbed(Tail(levels), b)
       IN  /\ base' = b
           /\ group' = g
           /\ levels' = Keep(Tail(levels), b)
           /\ consolidated' = Append(consolidated, LevelOf(g))
    /\ UNCHANGED <<df, pc, current_price, one_year_high, one_year_low, i,
                   found, top_3, status_msg, strategic_plan, response>>

\* lines 99-109: the loop has ended; filter, rank, cut and pick the status
Rank ==
    /\ pc = "cluster"
    /\ ~LoopCond(levels)
    /\ top_3' = TopN(SortByPriceDesc(Waiting(consolidated, current_price)))
    /\ strategic_plan' = <<>>
    /\ status_msg' = IF top_3' = <<>> THEN StatusNone ELSE StatusFound
    /\ i' = 0
    /\ pc' = "plan"
    /\ UNCHANGED <<df, current_price, one_year_high, one_year_low, levels,
                   found, base, group, consolidated, response>>

\* lines 111-124: one iteration of the enumerate loop
PlanStep ==
    /\ pc = "plan"
    /\ i < Len(top_3)
    /\ \E b \in BuyLevels(i, top_3, TotalStrength(top_3, consolidated),
                          one_year_high, current_price) :
           strategic_plan' = Append(strategic_plan, b)
    /\ i' = i + 1
    /\ UNCHANGED <<df, pc, current_price, one_year_high, one_year_low, levels,
                   found, base, group, consolidated, top_3, status_msg,
                   response>>

\* lines 126-135
Respond ==
    /\ pc = "plan"
    /\ i >= Len(top_3)
    /\ \E c \in Round2(current_price, 1), h \in Round2(one_year_high, 1),
          l \in Round2(one_year_low, 1) :
           response' = [current_price |-> c, year_high |-> h, year_low |-> l,
                        status |-> status_msg,
                        strategic_plan |-> strategic_plan]
    /\ pc' = "done"
    /\ UNCHANGED <<df, current_price, one_year_high, one_year_low, i, levels,
                   found, base, group, consolidated, top_3, status_msg,
                   strategic_plan>>

Next ==
    \/ NotFound
    \/ ReadPrices
    \/ ScanStep
    \/ ScanDone
    \/ SortLevels
    \/ ClusterStep
    \/ Rank
    \/ PlanStep
    \/ Respond

Spec == Init /\ [][Next]_vars

\* the handler is one synchronous call: once started it runs to its end
FairSpec == LiveInit /\ [][Next]_vars /\ WF_vars(Next)

TypeOK ==
    /\ pc \in {"fetch", "scan", "sort", "cluster", "plan", "done", "error"}
    /\ i \in Nat
    /\ Len(consolidated) <= Len(found)

(* --------------------------- properties --------------------------------- *)

Range(s) == {s[j] : j \in 1..Len(s)}

Abs(x) == IF x < 0 THEN -x ELSE x

Occurrences(s, v) == Cardinality({j \in 1..Len(s) : s[j] = v})

\* row k (zero-based) has a full window and is strictly the lowest of it
StrictMin(d, k) ==
    /\ 2 <= k
    /\ k <= Len(d) - 3
    /\ \A j \in {k - 2, k - 1, k + 1, k + 2} : d[k + 1].Low < d[j + 1].Low

\* row k (zero-based) equals one of the rows of its window
TiedWithNeighbour(d, k) ==
    \E j \in {k - 2, k - 1, k + 1, k + 2} :
        j >= 0 /\ j < Len(d) /\ d[k + 1].Low = d[j + 1].Low

ScanOver == pc \in {"sort", "cluster", "plan", "done"}

ClusteringOver == pc \in {"plan", "done"}

\* the clustered levels below the current price
Below == {j \in 1..Len(consolidated) :
            consolidated[j].price.num < current_price * consolidated[j].price.den}

RECURSIVE SumWeights(_)
SumWeights(s) == IF s = <<>> THEN 0 ELSE s[1].weight_percent + SumWeights(Tail(s))

RECURSIVE SumStrength(_)
SumStrength(s) == IF s = <<>> THEN 0 ELSE s[1].count + SumStrength(Tail(s))

\* C1 as stated: the plan has at most 3 entries and the returned (rounded)
\* prices are strictly descending by rank.
C1_StrictRounded ==
    /\ Len(strategic_plan) <= 3
    /\ \A k \in 1..(Len(strategic_plan) - 1) :
           strategic_plan[k].price > strategic_plan[k + 1].price

\* C1 amended: the plan has at most 3 entries, the selected averages are
\* strictly descending by rank, and the returned prices, rounded to 2
\* decimals, never ascend (two ranks may show the same rounded price).
C1_AtMostThreeDescending ==
    /\ Len(strategic_plan) <= 3
    /\ Len(top_3) <= 3
    /\ \A k \in 1..(Len(top_3) - 1) :
           top_3[k + 1].price.num * top_3[k].price.den
               < top_3[k].price.num * top_3[k + 1].price.den
    /\ \A k \in 1..(Len(strategic_plan) - 1) :
           strategic_plan[k].price >= strategic_plan[k + 1].price

\* four levels lie below the price, three are returned, two of them with the
\* same rounded price
C1_Witness ==
    /\ pc = "done"
    /\ Cardinality(Below) >= 4
    /\ Len(response.strategic_plan) = 3
    /\ response.strategic_plan[1].price = response.strategic_plan[2].price

\* C2: the plan is exactly the clustered levels strictly below the current
\* price, nearest first, cut to three; no omitted level below the price is
\* nearer than a returned one, whatever the strengths; entry k has order k.
C2_NearestThreeBelow ==
    ClusteringOver =>
        /\ Len(top_3) = IF Cardinality(Below) < 3 THEN Cardinality(Below) ELSE 3
        /\ \A k \in 1..Len(top_3) : \E j \in Below : consolidated[j] = top_3[k]
        /\ \A k \in 1..(Len(top_3) - 1) :
               top_3[k + 1].price.num * top_3[k].price.den
                   <= top_3[k].price.num * top_3[k + 1].price.den
        /\ \A j \in Below :
               (\A k \in 1..Len(top_3) : top_3[k] # consolidated[j]) =>
                   \A k \in 1..Len(top_3) :
                       consolidated[j].price.num * top_3[k].price.den
                           <= top_3[k].price.num * consolidated[j].price.den
        /\ Len(strategic_plan) <= Len(top_3)
        /\ \A k \in 1..Len(strategic_plan) :
               /\ strategic_plan[k].order = k
               /\ strategic_plan[k].price
                      \in Round2(top_3[k].price.num, top_3[k].price.den)
        /\ pc = "done" =>
               /\ Len(strategic_plan) = Len(top_3)
               /\ response.strategic_plan = strategic_plan

\* a level at or above the price is left out, a fourth level below it is cut,
\* and the nearest level is weaker than the one ranked after it
C2_Witness ==
    /\ pc = "done"
    /\ Cardinality(Below) = 4
    /\ Len(response.strategic_plan) = 3
    /\ top_3[1].count < top_3[2].count
    /\ response.strategic_plan[3].order = 3

\* C3: every weight_percent is a non-negative integer nearest to
\* strength / (total strength of the selected entries) * 100, and the weights
\* of a complete plan sum to 100 within count - 1.
C3_Weights ==
    /\ \A k \in 1..Len(strategic_plan) :
           /\ strategic_plan[k].weight_percent \in Nat
           /\ 2 * Abs(strategic_plan[k].weight_percent * SumStrength(top_3)
                          - 100 * top_3[k].count) <= SumStrength(top_3)
    /\ (pc = "done" /\ strategic_plan # <<>>) =>
           Abs(SumWeights(strategic_plan) - 100) <= Len(strategic_plan) - 1

\* three entries whose weights miss 100, with an unselected level present
C3_Witness ==
    /\ pc = "done"
    /\ Len(strategic_plan) = 3
    /\ SumWeights(strategic_plan) # 100
    /\ SumStrength(consolidated) > SumStrength(top_3)

\* C4 as stated: index i is a candidate iff 2 <= i <= len-3 and its low is
\* strictly below the lows at i-2, i-1, i+1, i+2.
C4_WindowOnly ==
    ScanOver =>
        \A k \in 0..(Len(df) - 1) : (k \in Range(found)) <=> StrictMin(df, k)

\* C4 amended: for a series of more than 5 points, index i is a candidate iff
\* 2 <= i <= len-3 and its low is strictly below the lows at i-2, i-1, i+1,
\* i+2; a series of 5 points or fewer has no candidate.  A low equal to a
\* neighbour, and the first two and last two points, are never candidates.
C4_StrictFractal ==
    /\ ScanOver =>
           \A k \in 0..(Len(df) - 1) :
               (k \in Range(found)) <=> (Len(df) > 5 /\ StrictMin(df, k))
    /\ \A k \in Range(found) :
           /\ ~TiedWithNeighbour(df, k)
           /\ k \notin {0, 1, Len(df) - 2, Len(df) - 1}
    /\ pc \in {"scan", "sort"} =>
           levels = [j \in 1..Len(found) |-> df[found[j] + 1].Low]
    /\ \A j \in 1..(Len(found) - 1) : found[j] < found[j + 1]

\* a candidate was found while another point, tied with a neighbour and lower
\* than the rest of its window, was not
C4_Witness ==
    /\ pc = "sort"
    /\ Len(df) > 5
    /\ found # <<>>
    /\ \E k \in 2..(Len(df) - 3) :
           /\ k \notin Range(found)
           /\ TiedWithNeighbour(df, k)
           /\ \A j \in {k - 2, k - 1, k + 1, k + 2} : df[k + 1].Low <= df[j + 1].Low

\* C5: in every cluster the anchor is the smallest member and every member b
\* satisfies anchor <= b <= anchor * 1.05, duplicates included.
C5_ClusterWithinFivePercent ==
    group # <<>> =>
        /\ base = group[1]
        /\ \A j \in 1..Len(group) :
               /\ base <= group[j]
               /\ 100 * group[j] <= 105 * base

\* a cluster with a duplicate of its anchor and a member exactly 5% above it
C5_Witness ==
    /\ Len(group) >= 3
    /\ group[2] = group[1]
    /\ 100 * group[Len(group)] = 105 * group[1]

\* C6: a series of length <= 5 yields no candidates, no levels, an empty plan.
C6_ShortSeriesEmpty ==
    Len(df) <= 5 =>
        /\ found = <<>>
        /\ levels = <<>>
        /\ consolidated = <<>>
        /\ top_3 = <<>>
        /\ strategic_plan = <<>>
        /\ response.strategic_plan = <<>>

\* five points whose middle one is strictly the lowest, handled to the end
C6_Witness ==
    /\ pc = "done"
    /\ Len(df) = 5
    /\ StrictMin(df, 2)

\* C7: with no clustered level below the current price the handler ends with
\* the no-level status and an empty plan, not an error; the status is the
\* found status iff the plan is non-empty.
C7_StatusMatchesPlan ==
    /\ pc = "error" => Len(df) = 0
    /\ pc = "done" =>
           /\ (response.status = StatusFound) <=> (response.strategic_plan # <<>>)
           /\ response.status \in {StatusFound, StatusNone}
           /\ Below = {} =>
                  /\ response.status = StatusNone
                  /\ response.strategic_plan = <<>>

\* levels exist, one of them exactly at the current price, none below it
C7_Witness ==
    /\ pc = "done"
    /\ consolidated # <<>>
    /\ \E j \in 1..Len(consolidated) :
           consolidated[j].price.num = current_price * consolidated[j].price.den
    /\ Below = {}
    /\ response.status = StatusNone

C8_Counted ==
    /\ pc = "cluster" => SumStrength(consolidated) + Len(levels) = Len(found)
    /\ ClusteringOver => SumStrength(consolidated) = Len(found)
    /\ \A j \in 1..Len(consolidated) : consolidated[j].count >= 1

C8_Step ==
    (pc = "cluster" /\ pc' = "cluster") =>
        /\ \A v \in Range(levels) \cup Range(group') \cup Range(levels') :
               Occurrences(levels, v) = Occurrences(group', v) + Occurrences(levels', v)
        /\ consolidated'[Len(consolidated')].count = Len(group')
        /\ consolidated'[Len(consolidated')].price.num * Len(group')
               = SumSeq(group') * consolidated'[Len(consolidated')].price.den
        /\ SubSeq(consolidated', 1, Len(consolidated)) = consolidated
        /\ consolidated # <<>> => 100 * base' > 105 * base

\* C8: clustering partitions the candidates (each, duplicates counted, lands
\* in exactly one cluster, so the strengths sum to the number of candidates);
\* a cluster's strength is its member count, its average the mean of its
\* members; each new anchor exceeds 1.05 times the previous anchor.
C8_Partition == [](C8_Counted) /\ [][C8_Step]_vars

\* all candidates clustered into at least two clusters, one of several members
C8_Witness ==
    /\ pc = "cluster"
    /\ levels = <<>>
    /\ Len(consolidated) >= 2
    /\ Len(group) >= 2
    /\ Len(found) = MaxCands

C9_Bounded ==
    /\ pc = "cluster" => Len(consolidated) + Len(levels) <= Len(found)
    /\ ClusteringOver =>
           /\ levels = <<>>
           /\ Len(consolidated) <= Len(found)
           /\ (Len(consolidated) = 0) <=> (Len(found) = 0)

C9_Step ==
    (pc = "cluster" /\ pc' = "cluster") =>
        /\ Len(levels') < Len(levels)
        /\ Len(consolidated') = Len(consolidated) + 1

\* C9: the worklist loop terminates: every iteration removes at least the
\* anchor and adds nothing, so it ends within as many iterations as there are
\* candidates, with nothing remaining and between 1 and that many clusters
\* (0 clusters only for 0 candidates).
C9_LoopTerminates ==
    /\ [](C9_Bounded)
    /\ [][C9_Step]_vars
    /\ (pc = "sort") ~> (pc = "plan" /\ levels = <<>>)

\* the loop took as many iterations as there were candidates
C9_Witness ==
    /\ pc = "plan"
    /\ Len(found) >= 2
    /\ Len(consolidated) = Len(found)

\* C10: two candidates are never less than 3 indices apart, so a series of
\* n > 5 points yields at most ceil((n - 4) / 3) candidates.
C10_CandidatesApart ==
    /\ \A a, b \in 1..Len(found) : a < b => found[b] - found[a] >= 3
    /\ Len(df) > 5 => Len(found) <= (Len(df) - 4 + 2) \div 3
    /\ pc \in {"scan", "sort"} => Len(levels) = Len(found)

\* two candidates exactly 3 apart in a freely enumerated series that reaches
\* the bound
C10_Witness ==
    /\ pc = "sort"
    /\ Len(df) = 8
    /\ found = <<2, 5>>
    /\ Len(found) = (Len(df) - 4 + 2) \div 3

====
